---- MODULE Spec2Model ----
(***************************************************************************)
(* Model of pre_commit/languages/pixi.py: the pixi language plugin of      *)
(* pre-commit.  A hook execution is an OS process that calls               *)
(* install_environment, enters in_env and calls run_hook; every external   *)
(* process launch blocks the caller, so each launch and each exit of a     *)
(* child is one step.                                                      *)
(*                                                                         *)
(* A Python str is a sequence of one-character strings, so that            *)
(* concatenation, startswith and split are computed as the code computes   *)
(* them.  os.environ is a function from the names that are set to their    *)
(* values; a name outside its domain is unset.                             *)
(***************************************************************************)
EXTENDS Naturals, Sequences, FiniteSets, TLC

\* ------------------------------------------------------------ bounds
NumProcs == 2
MaxCalls == 4
MaxFiles == 2
ChunkCap == 1
NCpu == 2

\* ---------------------------------------------------- string literals
S_system == <<"s", "y", "s", "t", "e", "m">>
S_DEFAULT == <<"d", "e", "f", "a", "u", "l", "t">>
S_latest == <<"l", "a", "t", "e", "s", "t">>
S_pin == <<"v", "0", ".", "3", "8", ".", "0">>
S_win32 == <<"w", "i", "n", "3", "2">>
S_linux == <<"l", "i", "n", "u", "x">>
S_install_ps1 == <<"i", "n", "s", "t", "a", "l", "l", ".", "p", "s", "1">>
S_install_sh == <<"i", "n", "s", "t", "a", "l", "l", ".", "s", "h">>
S_url_base == <<"h", "t", "t", "p", "s", ":", "/", "/", "p", "i", "x", "i", ".", "s", "h", "/">>
S_dot_exe == <<".", "e", "x", "e">>
S_bin == <<"b", "i", "n">>
ENVIRONMENT_DIR == <<"p", "i", "x", "i", "_", "e", "n", "v">>
S_pixi_toml == <<"p", "i", "x", "i", ".", "t", "o", "m", "l">>
S_pixi == <<"p", "i", "x", "i">>
S_install == <<"i", "n", "s", "t", "a", "l", "l">>
S_run == <<"r", "u", "n">>
S_manifest_path == <<"-", "-", "m", "a", "n", "i", "f", "e", "s", "t", "-", "p", "a", "t", "h">>
S_e == <<"-", "e">>
S_environment == <<"-", "-", "e", "n", "v", "i", "r", "o", "n", "m", "e", "n", "t">>
S_e_eq == <<"-", "e", "=">>
S_environment_eq == <<"-", "-", "e", "n", "v", "i", "r", "o", "n", "m", "e", "n", "t", "=">>
S_default_env == <<"d", "e", "f", "a", "u", "l", "t">>
S_one == <<"1">>
S_empty == <<>>
S_add == <<"a", "d", "d">>

\* pixi's options that forbid a run to update the lockfile.
LockfileFlags ==
    { <<"-", "-", "f", "r", "o", "z", "e", "n">>,
      <<"-", "-", "l", "o", "c", "k", "e", "d">>,
      <<"-", "-", "n", "o", "-", "l", "o", "c", "k", "f", "i", "l", "e", "-", "u", "p", "d", "a", "t", "e">> }

\* ------------------------------------------------ the input universe
Procs == 1..NumProcs

\* The checkout root of the hook (Prefix.prefix_dir), two working
\* directories a caller may be in, and the private temporary directory.
PrefixDir == <<"/", "p">>
Cwds == {<<"/", "w">>, <<"/", "o">>}
TmpDir == <<"/", "t", "m", "p", "/", "t">>

Versions == {S_system, S_DEFAULT, S_pin}

Dep1 == <<"p", "=", "1">>
Dep2 == <<"p", "=", "2">>

AllFiles == <<<<"f", "1">>, <<"f", "2">>, <<"f", "3">>, <<"f", "4">>>>

\* Ambient environments a process may start with: nothing set, or every
\* variable the plugin touches already set to something else.
EnvNone == [n \in {} |-> S_empty]
EnvSet == [n \in {"PATH", "PIXI_HOME", "PIXI_VERSION", "PIXI_NO_PATH_UPDATE"} |->
             CASE n = "PATH" -> <<"/", "b">>
               [] n = "PIXI_HOME" -> <<"/", "h">>
               [] n = "PIXI_VERSION" -> <<"v", "9">>
               [] OTHER -> <<"0">>]

\* The hosts tried: a platform and the ambient environment.
Hosts ==
    { [platform |-> S_linux, environ |-> EnvNone],
      [platform |-> S_linux, environ |-> EnvSet],
      [platform |-> S_win32, environ |-> EnvSet] }

\* ------------------------------------------------ Python str helpers
startswith(s, pre) == Len(s) >= Len(pre) /\ SubSeq(s, 1, Len(pre)) = pre

\* The least index of s holding the character c, 0 when there is none.
Find(s, c) ==
    IF \E i \in 1..Len(s) : s[i] = c
    THEN CHOOSE i \in 1..Len(s) : s[i] = c /\ \A j \in 1..(i - 1) : s[j] # c
    ELSE 0

\* s.split(c, maxsplit=1)
split1(s, c) ==
    IF Find(s, c) = 0 THEN <<s>>
    ELSE <<SubSeq(s, 1, Find(s, c) - 1), SubSeq(s, Find(s, c) + 1, Len(s))>>

\* Splitting on blanks, empty words dropped (shlex.split of an entry
\* without quotes or escapes).
RECURSIVE shlex_split(_)
shlex_split(s) ==
    IF s = <<>> THEN <<>>
    ELSE IF s[1] = " " THEN shlex_split(Tail(s))
    ELSE IF Find(s, " ") = 0 THEN <<s>>
    ELSE <<SubSeq(s, 1, Find(s, " ") - 1)>>
           \o shlex_split(SubSeq(s, Find(s, " "), Len(s)))

\* ---------------------------------------------------------- the state
VARIABLES
    sys_platform,   \* sys.platform of the host
    live,           \* the OS processes (hook executions) that exist
    dirs,           \* the environment directories present on disk
    manifest,       \* the pixi.toml files on disk: path -> [exists, deps]
    environ,        \* os.environ of each process
    ctx,            \* each process's stack of active envcontext scopes
    cwd,            \* os.getcwd() of each process
    pc,             \* where each process is
    scope,          \* the in_env scope a process is in
    inst,           \* locals of the process's install_environment call
    hook,           \* locals of the process's run_hook call
    trace,          \* the requests and children of the current call
    result,         \* how the process's last call ended
    pixi_on_path,   \* whether a pixi executable is on the ambient search path
    default_version, \* each process's cache of get_default_version, and its calls
    pixi_home       \* what each environment directory holds of the toolchain

vars == <<sys_platform, live, dirs, manifest, environ, ctx, cwd, pc, scope,
          inst, hook, trace, result, pixi_on_path, default_version, pixi_home>>

\* What get_default_version reads and keeps.
resolver == <<pixi_on_path, default_version>>

\* With one process the inputs range widely; with several, over one
\* representative each, which keeps the interleavings explorable.
Rich == Cardinality(live) = 1

VersionsIn == IF Rich THEN Versions ELSE {S_pin}
DepsIn == IF Rich THEN {<<>>, <<Dep2>>} ELSE {<<>>}
\* The hook commands tried: an entry and its static arguments.  Those
\* that name no environment are run over every choice of files, locality
\* and concurrency.
CmdsIn ==
    IF Rich
    THEN { [entry |-> <<"t">>, args |-> <<>>],
           [entry |-> <<"t">>, args |-> <<<<"a">>>>] }
    ELSE { [entry |-> <<"t">>, args |-> <<>>] }

\* Those that carry pixi options before the task are run, without
\* files, from the workspace manifest.
OptionCmdsIn ==
    IF Rich
    THEN { [entry |-> <<"-", "e", " ", "x", " ", "t">>, args |-> <<>>],
           [entry |-> <<"-", "-", "e", "n", "v", "i", "r", "o", "n", "m", "e", "n", "t", " ", "x", " ", "t">>,
            args |-> <<>>],
           [entry |-> <<"-", "v", " ", "-", "e", " ", "x", " ", "t">>, args |-> <<>>],
           [entry |-> <<"-", "e", "=", "x", " ", "t">>, args |-> <<>>],
           [entry |-> <<"-", "-", "e", "n", "v", "i", "r", "o", "n", "m", "e", "n", "t",
                        "=", "x", " ", "t">>,
            args |-> <<>>],
           [entry |-> <<"-", "e">>, args |-> <<<<"x">>, <<"t">>>>],
           [entry |-> <<"-", "e">>, args |-> <<>>] }
    ELSE {}
FilesIn ==
    IF Rich THEN {SubSeq(AllFiles, 1, n) : n \in {0, MaxFiles}}
    ELSE {SubSeq(AllFiles, 1, 1)}
LocalIn == IF Rich THEN BOOLEAN ELSE {FALSE}
SerialIn == IF Rich THEN BOOLEAN ELSE {FALSE}

\* The run_hook calls tried.
CallsIn ==
    { [entry |-> c.entry, args |-> c.args, file_args |-> f, is_local |-> l,
       require_serial |-> s] :
          c \in CmdsIn, f \in FilesIn, l \in LocalIn, s \in SerialIn }
    \cup
    { [entry |-> c.entry, args |-> c.args, file_args |-> <<>>, is_local |-> FALSE,
       require_serial |-> FALSE] : c \in OptionCmdsIn }

\* ------------------------------------------------- os and os.path
os_sep == IF sys_platform = S_win32 THEN <<"\\">> ELSE <<"/">>
os_pathsep == IF sys_platform = S_win32 THEN <<";">> ELSE <<":">>

\* os.path.join of a directory and a relative name.
os_path_join(a, b) == a \o os_sep \o b

IsSep(c) == c = "/" \/ (sys_platform = S_win32 /\ c = "\\")

\* os.path.basename: what follows the last separator.
os_path_basename(path) ==
    IF \E i \in 1..Len(path) : IsSep(path[i])
    THEN LET k == CHOOSE i \in 1..Len(path) :
                    IsSep(path[i]) /\ \A j \in (i + 1)..Len(path) : ~IsSep(path[j])
         IN  SubSeq(path, k + 1, Len(path))
    ELSE path

\* ------------------------------------------------- collaborators
\* Prefix.path(name): the path of name under the hook's checkout root.
prefix_path(name) == os_path_join(PrefixDir, name)

\* lang_base.environment_dir(prefix, d, language_version)
environment_dir(d, version) == prefix_path(d \o <<"-">> \o version)

\* util.win_exe: the name an executable has on the host.
win_exe(s) == IF sys_platform = S_win32 THEN s \o S_dot_exe ELSE s

\* lang_base.hook_cmd(entry, args)
hook_cmd(entry, args) == shlex_split(entry) \o args

\* A part of a patched value: a literal, or Var(name) (default '').
Lit(s) == [var |-> "", s |-> s]
Var(name) == [var |-> name, s |-> S_empty]

Getenv(env, name, default) == IF name \in DOMAIN env THEN env[name] ELSE default

Setenv(env, name, value) ==
    [n \in (DOMAIN env) \cup {name} |-> IF n = name THEN value ELSE env[n]]

\* envcontext.format_env: the parts joined, a Var read from the
\* environment as it was before the scope.
RECURSIVE format_env(_, _)
format_env(parts, before) ==
    IF parts = <<>> THEN <<>>
    ELSE (IF Head(parts).var = "" THEN Head(parts).s
          ELSE Getenv(before, Head(parts).var, Head(parts).s))
         \o format_env(Tail(parts), before)

\* envcontext's entry: the patch applied in order to env.
RECURSIVE apply_patch(_, _, _)
apply_patch(patch, env, before) ==
    IF patch = <<>> THEN env
    ELSE apply_patch(Tail(patch),
                     Setenv(env, Head(patch).name, format_env(Head(patch).parts, before)),
                     before)

envcontext_enter(patch, env) == apply_patch(patch, env, env)

\* envcontext's exit (its finally clause): the environment as it was.
envcontext_exit(stack) == stack[Len(stack)]

Front(s) == SubSeq(s, 1, Len(s) - 1)

\* The environment directories of the versions a hook is configured with.
EnvDirs == {environment_dir(ENVIRONMENT_DIR, v) : v \in Versions}

\* ------------------------------------------------- the pixi command line
\* The environment `pixi run <cmd>` selects: the options before the task
\* are read from the left, -e and --environment take the next token or
\* the text after '=', any other option is skipped, and the first token
\* that is no option is the task; without the option it is 'default'.
RECURSIVE pixi_run_selects(_)
pixi_run_selects(cmd) ==
    IF cmd = <<>> THEN S_default_env
    ELSE IF Head(cmd) \in {S_e, S_environment}
         THEN (IF Len(cmd) >= 2 THEN cmd[2] ELSE S_default_env)
    ELSE IF startswith(Head(cmd), S_e_eq) \/ startswith(Head(cmd), S_environment_eq)
         THEN split1(Head(cmd), "=")[2]
    ELSE IF startswith(Head(cmd), <<"-">>) THEN pixi_run_selects(Tail(cmd))
    ELSE S_default_env

\* ------------------------------------------------- pixi.py, pure parts
\* Mutant: the bin directory appended to PATH instead of prepended.
get_env_patch_appended(envdir, version) ==
    IF version = S_system THEN <<>>
    ELSE << [name |-> "PATH",
             parts |-> <<Var("PATH"), Lit(os_pathsep), Lit(os_path_join(envdir, S_bin))>>],
            [name |-> "PIXI_HOME", parts |-> <<Lit(envdir)>>] >>

\* Mutant: the patch of an isolated environment built for 'system' too.
get_env_patch_always(envdir, version) ==
    << [name |-> "PATH",
        parts |-> <<Lit(os_path_join(envdir, S_bin)), Lit(os_pathsep), Var("PATH")>>],
       [name |-> "PIXI_HOME", parts |-> <<Lit(envdir)>>] >>

get_env_patch(envdir, version) ==
    IF version = S_system THEN <<>>
    ELSE << [name |-> "PATH",
             parts |-> <<Lit(os_path_join(envdir, S_bin)), Lit(os_pathsep), Var("PATH")>>],
            [name |-> "PIXI_HOME", parts |-> <<Lit(envdir)>>] >>

\* Mutant: the sentinel passed on as the release tag.
_pixi_version_identity(language_version) == language_version

_pixi_version(language_version) ==
    IF language_version = S_DEFAULT THEN S_latest ELSE language_version

\* Mutant: os.makedirs without exist_ok, which raises FileExistsError
\* when the directory is there.
os_makedirs_raises_strict(existing, d) == d \in existing

\* os.makedirs(d, exist_ok=True) raises for no state of the directory.
os_makedirs_raises(existing, d) == FALSE

\* Mutant: the test of the version inverted.
bootstraps_inverted(version) == version = S_system

\* Whether install_environment calls _install_pixi.
bootstraps(version) == version # S_system

installer_name(platform) ==
    IF platform = S_win32 THEN S_install_ps1 ELSE S_install_sh

installer_url(name) == S_url_base \o name

installer_exe(tmpdir, name) == os_path_join(tmpdir, win_exe(name))

\* Mutant: the path-update flag left out of the overrides.
install_overrides_noflag(envdir, version) ==
    << [name |-> "PIXI_HOME", parts |-> <<Lit(envdir)>>],
       [name |-> "PIXI_VERSION", parts |-> <<Lit(version)>>] >>

install_overrides(envdir, version) ==
    << [name |-> "PIXI_HOME", parts |-> <<Lit(envdir)>>],
       [name |-> "PIXI_VERSION", parts |-> <<Lit(version)>>],
       [name |-> "PIXI_NO_PATH_UPDATE", parts |-> <<Lit(S_one)>>] >>

\* ------------------------------------------------- the bootstrap script
\* What install.sh / install.ps1 leaves in $PIXI_HOME: the complete
\* toolchain when it exits with status 0, whatever it found there; when
\* it fails or is killed, what it found or, if it had begun to write, an
\* incomplete tree.
script_leaves(found, rc, wrote) ==
    IF rc = 0 THEN "complete"
    ELSE IF wrote THEN "partial"
    ELSE found

\* ------------------------------------------------- records
Event(kind, argv, env) ==
    [kind |-> kind, argv |-> argv, env |-> env, status |-> "running", rc |-> 0]

Exited(ev, rc) == [ev EXCEPT !.status = IF rc = 0 THEN "ok" ELSE "fail", !.rc = rc]

NoResult == [of |-> "none", kind |-> "none", exc |-> "", retcode |-> 0]

\* The install_environment call that directly preceded a call, if any.
NoPrev == [kind |-> "none", version |-> S_empty, deps |-> <<>>]

\* The locals of an install_environment call, with what the call found:
\* the environment, the directories, the toolchain trees and the call
\* before it.
NoInst ==
    [version |-> S_empty, deps |-> <<>>, envdir |-> S_empty, pixi_version |-> S_empty,
     installer |-> S_empty, exe |-> S_empty, exc |-> "",
     entry_env |-> EnvNone, pixi_entry_env |-> EnvNone,
     entry_dirs |-> {}, entry_home |-> <<>>, prev |-> NoPrev]

\* The manifest of the run_hook call of the scope before, if any.
NoLast == [is_local |-> FALSE, project |-> S_empty]

NoScope ==
    [state |-> "none", version |-> S_empty, envdir |-> S_empty, entry_env |-> EnvNone,
     last |-> NoLast]

NoHook ==
    [entry |-> S_empty, args |-> <<>>, file_args |-> <<>>, is_local |-> FALSE,
     require_serial |-> FALSE, project |-> S_empty, cmd |-> <<>>, env |-> S_empty,
     chunks |-> <<>>, exc |-> "", prev_project |-> S_empty]

\* The manifests on disk: the workspace's and one working directory's
\* pin different versions of the same dependency; the other working
\* directory holds none.
ManifestPaths == {os_path_join(d, S_pixi_toml) : d \in Cwds \cup {PrefixDir}}

InitManifest ==
    [m \in ManifestPaths |->
        IF m = prefix_path(S_pixi_toml) THEN [exists |-> TRUE, deps |-> {Dep1}]
        ELSE IF m = os_path_join(<<"/", "w">>, S_pixi_toml)
             THEN [exists |-> TRUE, deps |-> {Dep2}]
        ELSE [exists |-> FALSE, deps |-> {}]]

\* The cache of get_default_version before its first call, with the
\* record of its calls: how many, how many of them probed the search
\* path, what the path held at the first call, and the first and the
\* last value returned.
NoDefault ==
    [cached |-> FALSE, value |-> S_empty, calls |-> 0, probes |-> 0,
     probed |-> FALSE, first |-> S_empty, last |-> S_empty]

\* ------------------------------------------------- initial states
InitShared ==
    /\ dirs = {}
    /\ manifest = InitManifest
    /\ ctx = [p \in Procs |-> <<>>]
    /\ cwd = [p \in Procs |-> <<"/", "w">>]
    /\ pc = [p \in Procs |-> "idle"]
    /\ scope = [p \in Procs |-> NoScope]
    /\ inst = [p \in Procs |-> NoInst]
    /\ hook = [p \in Procs |-> NoHook]
    /\ trace = [p \in Procs |-> <<>>]
    /\ result = [p \in Procs |-> NoResult]
    /\ default_version = [p \in Procs |-> NoDefault]
    /\ pixi_home = [d \in EnvDirs |-> "none"]

\* One hook execution, any ambient environment.
Init ==
    /\ live = {1}
    /\ \E h \in Hosts :
           /\ sys_platform = h.platform
           /\ environ = [p \in Procs |-> h.environ]
    /\ pixi_on_path = FALSE
    /\ InitShared

\* Several hook executions against the same checkout.
InitConc ==
    /\ live = Procs
    /\ sys_platform = S_linux
    /\ environ = [p \in Procs |-> EnvSet]
    /\ pixi_on_path = FALSE
    /\ InitShared

\* The framework's processes before any hook is installed or run, on a
\* host with or without pixi on the search path.
InitDefault ==
    /\ live = Procs
    /\ sys_platform = S_linux
    /\ environ = [p \in Procs |-> EnvSet]
    /\ pixi_on_path \in BOOLEAN
    /\ InitShared

\* ------------------------------------------------- the framework
\* The framework sequences install-then-run without overlap: it installs
\* an environment under the store's exclusive lock, while no other
\* hook execution is in a call on the checkout, and runs a hook only
\* while no installation is under way.  Runs are not serialized.
InInstall(q) == pc[q] \in {"urlopen", "bootstrap", "ie_unwind"}

FrameworkAllowsInstall(p) == \A q \in live \ {p} : pc[q] = "idle"

FrameworkAllowsRun(p) == \A q \in live \ {p} : ~InInstall(q)

\* The framework runs a hook only in an environment whose installation
\* has succeeded: the directory exists and, unless the version is
\* 'system', the bootstrap script has completed in it.
FrameworkInstalled(version) ==
    LET envdir == environment_dir(ENVIRONMENT_DIR, version)
    IN  /\ envdir \in dirs
        /\ version # S_system => pixi_home[envdir] = "complete"

\* ------------------------------------------------- install_environment
\* install_environment up to its first blocking call: the directory is
\* made, the environment patch entered and, unless the version is
\* 'system', _install_pixi entered up to urlopen.
InstallEnvironmentCall(p, version, additional_dependencies) ==
    /\ p \in live
    /\ pc[p] = "idle"
    /\ FrameworkAllowsInstall(p)
    /\ LET envdir == environment_dir(ENVIRONMENT_DIR, version)
           env1 == envcontext_enter(get_env_patch(envdir, version), environ[p])
           name == installer_name(sys_platform)
           found == [NoInst EXCEPT !.version = version,
                                   !.deps = additional_dependencies,
                                   !.envdir = envdir,
                                   !.entry_env = environ[p],
                                   !.entry_dirs = dirs,
                                   !.entry_home = pixi_home,
                                   !.prev =
                                       IF result[p].of = "install_environment"
                                       THEN [kind |-> result[p].kind,
                                             version |-> inst[p].version,
                                             deps |-> inst[p].deps]
                                       ELSE NoPrev]
       IN  IF os_makedirs_raises(dirs, envdir)
           THEN /\ inst' = [inst EXCEPT ![p] = [found EXCEPT !.exc = "FileExistsError"]]
                /\ trace' = [trace EXCEPT ![p] = <<>>]
                /\ result' = [result EXCEPT ![p] =
                       [of |-> "install_environment", kind |-> "raise",
                        exc |-> "FileExistsError", retcode |-> 0]]
                /\ UNCHANGED <<dirs, ctx, environ, pc>>
           ELSE /\ dirs' = dirs \cup {envdir}
                /\ ctx' = [ctx EXCEPT ![p] = Append(@, environ[p])]
                /\ environ' = [environ EXCEPT ![p] = env1]
                /\ result' = [result EXCEPT ![p] = NoResult]
                /\ inst' = [inst EXCEPT ![p] =
                       [found EXCEPT !.pixi_entry_env = env1,
                                     !.pixi_version =
                                         IF bootstraps(version)
                                         THEN _pixi_version(version) ELSE S_empty,
                                     !.installer =
                                         IF bootstraps(version) THEN name ELSE S_empty]]
                /\ IF bootstraps(version)
                   THEN /\ trace' = [trace EXCEPT ![p] =
                               <<Event("urlopen", <<installer_url(name)>>, env1)>>]
                        /\ pc' = [pc EXCEPT ![p] = "urlopen"]
                   ELSE /\ trace' = [trace EXCEPT ![p] = <<>>]
                        /\ pc' = [pc EXCEPT ![p] = "ie_unwind"]
    /\ scope' = [scope EXCEPT ![p] = NoScope]
    /\ hook' = [hook EXCEPT ![p] = NoHook]
    /\ UNCHANGED <<resolver, pixi_home, sys_platform, live, manifest, cwd>>

\* Mutant: a failed download tried again inside the call.
UrlopenDone_retry(p, ok) ==
    /\ p \in live
    /\ pc[p] = "urlopen"
    /\ IF ok
       THEN LET exe == installer_exe(TmpDir, inst[p].installer)
                env2 == envcontext_enter(
                            install_overrides(inst[p].envdir, inst[p].pixi_version),
                            environ[p])
            IN  /\ ctx' = [ctx EXCEPT ![p] = Append(@, environ[p])]
                /\ environ' = [environ EXCEPT ![p] = env2]
                /\ inst' = [inst EXCEPT ![p].exe = exe]
                /\ trace' = [trace EXCEPT ![p] =
                       <<Exited(@[Len(@)], 0), Event("exec", <<exe>>, env2)>>]
                /\ pc' = [pc EXCEPT ![p] = "bootstrap"]
       ELSE /\ Len(trace[p]) < 2
            /\ trace' = [trace EXCEPT ![p] =
                   <<Exited(@[1], 1),
                     Event("urlopen", <<installer_url(inst[p].installer)>>, environ[p])>>]
            /\ UNCHANGED <<ctx, environ, inst, pc>>
    /\ UNCHANGED <<resolver, pixi_home, sys_platform, live, dirs, manifest, cwd, scope,
                   hook, result>>

\* urlopen answers.  A response is copied to the temporary file, made
\* executable, the install-only overrides are entered and the script is
\* launched; a failure raises out of _install_pixi.
UrlopenDone(p, ok) ==
    /\ p \in live
    /\ pc[p] = "urlopen"
    /\ IF ok
       THEN LET exe == installer_exe(TmpDir, inst[p].installer)
                env2 == envcontext_enter(
                            install_overrides(inst[p].envdir, inst[p].pixi_version),
                            environ[p])
            IN  /\ ctx' = [ctx EXCEPT ![p] = Append(@, environ[p])]
                /\ environ' = [environ EXCEPT ![p] = env2]
                /\ inst' = [inst EXCEPT ![p].exe = exe]
                /\ trace' = [trace EXCEPT ![p] =
                       <<Exited(@[1], 0), Event("exec", <<exe>>, env2)>>]
                /\ pc' = [pc EXCEPT ![p] = "bootstrap"]
       ELSE /\ inst' = [inst EXCEPT ![p].exc = "URLError"]
            /\ trace' = [trace EXCEPT ![p] = <<Exited(@[1], 1)>>]
            /\ pc' = [pc EXCEPT ![p] = "ie_unwind"]
            /\ UNCHANGED <<ctx, environ>>
    /\ UNCHANGED <<resolver, pixi_home, sys_platform, live, dirs, manifest, cwd, scope,
                   hook, result>>

\* Mutant: the script run with check=False, its exit status dropped.
BootstrapExit_unchecked(p, rc) ==
    /\ p \in live
    /\ pc[p] = "bootstrap"
    /\ trace' = [trace EXCEPT ![p][2] = Exited(@, rc)]
    /\ environ' = [environ EXCEPT ![p] = envcontext_exit(ctx[p])]
    /\ ctx' = [ctx EXCEPT ![p] = Front(@)]
    /\ inst' = [inst EXCEPT ![p].exc = ""]
    /\ pc' = [pc EXCEPT ![p] = "ie_unwind"]
    /\ \E wrote \in BOOLEAN :
           pixi_home' = [pixi_home EXCEPT ![environ[p]["PIXI_HOME"]] =
               script_leaves(@, rc, wrote)]
    /\ UNCHANGED <<resolver, sys_platform, live, dirs, manifest, cwd, scope, hook,
                   result>>

\* Mutant: the overrides set without a scope, so that a failing script
\* leaves them in place.
BootstrapExit_norestore(p, rc) ==
    /\ p \in live
    /\ pc[p] = "bootstrap"
    /\ trace' = [trace EXCEPT ![p][2] = Exited(@, rc)]
    /\ IF rc = 0
       THEN /\ environ' = [environ EXCEPT ![p] = envcontext_exit(ctx[p])]
            /\ ctx' = [ctx EXCEPT ![p] = Front(@)]
       ELSE UNCHANGED <<environ, ctx>>
    /\ inst' = [inst EXCEPT ![p].exc = IF rc = 0 THEN "" ELSE "CalledProcessError"]
    /\ pc' = [pc EXCEPT ![p] = "ie_unwind"]
    /\ \E wrote \in BOOLEAN :
           pixi_home' = [pixi_home EXCEPT ![environ[p]["PIXI_HOME"]] =
               script_leaves(@, rc, wrote)]
    /\ UNCHANGED <<resolver, sys_platform, live, dirs, manifest, cwd, scope, hook,
                   result>>

\* The bootstrap script exits: the overrides' scope and the temporary
\* directory are left, on success and on CalledProcessError alike.
BootstrapExit(p, rc) ==
    /\ p \in live
    /\ pc[p] = "bootstrap"
    /\ trace' = [trace EXCEPT ![p][2] = Exited(@, rc)]
    /\ environ' = [environ EXCEPT ![p] = envcontext_exit(ctx[p])]
    /\ ctx' = [ctx EXCEPT ![p] = Front(@)]
    /\ inst' = [inst EXCEPT ![p].exc = IF rc = 0 THEN "" ELSE "CalledProcessError"]
    /\ pc' = [pc EXCEPT ![p] = "ie_unwind"]
    /\ \E wrote \in BOOLEAN :
           pixi_home' = [pixi_home EXCEPT ![environ[p]["PIXI_HOME"]] =
               script_leaves(@, rc, wrote)]
    /\ UNCHANGED <<resolver, sys_platform, live, dirs, manifest, cwd, scope, hook,
                   result>>

\* install_environment leaves its envcontext and returns, or lets the
\* exception of _install_pixi through.
InstallEnvironmentReturn(p) ==
    /\ p \in live
    /\ pc[p] = "ie_unwind"
    /\ environ' = [environ EXCEPT ![p] = envcontext_exit(ctx[p])]
    /\ ctx' = [ctx EXCEPT ![p] = Front(@)]
    /\ result' = [result EXCEPT ![p] =
           [of |-> "install_environment",
            kind |-> IF inst[p].exc = "" THEN "return" ELSE "raise",
            exc |-> inst[p].exc, retcode |-> 0]]
    /\ pc' = [pc EXCEPT ![p] = "idle"]
    /\ UNCHANGED <<resolver, pixi_home, sys_platform, live, dirs, manifest, cwd, scope,
                   inst, hook, trace>>

\* ------------------------------------------------- in_env
\* The caller's `with in_env(prefix, version):` is entered.
InEnvEnter(p, version) ==
    /\ p \in live
    /\ pc[p] = "idle"
    /\ FrameworkAllowsRun(p)
    /\ FrameworkInstalled(version)
    /\ LET envdir == environment_dir(ENVIRONMENT_DIR, version)
       IN  /\ scope' = [scope EXCEPT ![p] =
                  [state |-> "in", version |-> version, envdir |-> envdir,
                   entry_env |-> environ[p], last |-> scope[p].last]]
           /\ ctx' = [ctx EXCEPT ![p] = Append(@, environ[p])]
           /\ environ' = [environ EXCEPT ![p] =
                  envcontext_enter(get_env_patch(envdir, version), environ[p])]
    /\ pc' = [pc EXCEPT ![p] = "in_env"]
    /\ inst' = [inst EXCEPT ![p] = NoInst]
    /\ hook' = [hook EXCEPT ![p] = NoHook]
    /\ trace' = [trace EXCEPT ![p] = <<>>]
    /\ result' = [result EXCEPT ![p] = NoResult]
    /\ UNCHANGED <<resolver, pixi_home, sys_platform, live, dirs, manifest, cwd>>

\* The with block is left, by falling off its end or by an exception of
\* the wrapped run_hook.
InEnvExit(p) ==
    /\ p \in live
    /\ pc[p] = "in_env"
    /\ environ' = [environ EXCEPT ![p] = envcontext_exit(ctx[p])]
    /\ ctx' = [ctx EXCEPT ![p] = Front(@)]
    /\ scope' = [scope EXCEPT ![p].state = "left",
                              ![p].last =
                                  IF hook[p].project # S_empty
                                  THEN [is_local |-> hook[p].is_local,
                                        project |-> hook[p].project]
                                  ELSE @]
    /\ hook' = [hook EXCEPT ![p] = NoHook]
    /\ trace' = [trace EXCEPT ![p] = <<>>]
    /\ pc' = [pc EXCEPT ![p] = "idle"]
    /\ UNCHANGED <<resolver, pixi_home, sys_platform, live, dirs, manifest, cwd, inst,
                   result>>

\* The caller changes its working directory between calls.
Chdir(p, d) ==
    /\ p \in live
    /\ pc[p] = "idle"
    /\ d # cwd[p]
    /\ cwd' = [cwd EXCEPT ![p] = d]
    /\ UNCHANGED <<resolver, pixi_home, sys_platform, live, dirs, manifest, environ,
                   ctx, pc, scope, inst, hook, trace, result>>

\* ------------------------------------------------- run_hook
\* Mutant: the two locations exchanged.
manifest_path_swapped(is_local, dir) ==
    IF is_local THEN prefix_path(S_pixi_toml) ELSE os_path_join(dir, S_pixi_toml)

\* Mutant: the manifest looked up in the working directory for every hook.
manifest_path_cwd(is_local, dir) == os_path_join(dir, S_pixi_toml)

manifest_path(is_local, dir) ==
    IF is_local THEN os_path_join(dir, S_pixi_toml) ELSE prefix_path(S_pixi_toml)

\* cmd[0] of an empty command and cmd[1] of a one-token command raise
\* IndexError.
hook_env_raises(cmd) ==
    \/ Len(cmd) = 0
    \/ (cmd[1] \in {S_e, S_environment} /\ Len(cmd) < 2)

\* The environment the pre-run step installs (cmd[0] is cmd[1] here).
hook_env(cmd) ==
    IF cmd[1] \in {S_e, S_environment} THEN cmd[2]
    ELSE IF startswith(cmd[1], S_e_eq) \/ startswith(cmd[1], S_environment_eq)
         THEN split1(cmd[1], "=")[2]
    ELSE S_default_env

\* Mutant: the environment option left out of the pre-run step.
install_cmd_noenv(project, env) == <<S_pixi, S_install, S_manifest_path, project>>

install_cmd(project, env) ==
    <<S_pixi, S_install, S_manifest_path, project, S_e, env>>

\* Mutant: the manifest option put after the hook command.
run_cmd_optlast(project, cmd) == <<S_pixi, S_run>> \o cmd \o <<S_manifest_path, project>>

run_cmd(project, cmd) == <<S_pixi, S_run, S_manifest_path, project>> \o cmd

\* xargs.partition: the file arguments cut into the chunks one command
\* line holds; a command without file arguments runs once.
RECURSIVE partition(_)
partition(files) ==
    IF Len(files) <= ChunkCap THEN <<files>>
    ELSE <<SubSeq(files, 1, ChunkCap)>>
           \o partition(SubSeq(files, ChunkCap + 1, Len(files)))

\* The chunks run_xargs runs at a time.
target_concurrency(require_serial) == IF require_serial THEN 1 ELSE NCpu

Running(tr) == {i \in 1..Len(tr) : tr[i].status = "running"}

\* run_hook, called once inside the caller's in_env scope, up to its
\* first blocking call: the manifest and the environment are selected and
\* `pixi install` is launched.  The call notes the manifest the call
\* before it used for the same is_local.
RunHookCall(p, entry, args, file_args, is_local, require_serial) ==
    /\ p \in live
    /\ pc[p] = "in_env"
    /\ result[p].of = "none"
    /\ LET project == manifest_path(is_local, cwd[p])
           cmd == hook_cmd(entry, args)
           h == [NoHook EXCEPT !.entry = entry, !.args = args,
                               !.file_args = file_args, !.is_local = is_local,
                               !.require_serial = require_serial,
                               !.project = project, !.cmd = cmd,
                               !.prev_project =
                                   IF scope[p].last.is_local = is_local
                                   THEN scope[p].last.project ELSE S_empty]
       IN  IF hook_env_raises(cmd)
           THEN /\ hook' = [hook EXCEPT ![p] = [h EXCEPT !.exc = "IndexError"]]
                /\ trace' = [trace EXCEPT ![p] = <<>>]
                /\ result' = [result EXCEPT ![p] =
                       [of |-> "run_hook", kind |-> "raise", exc |-> "IndexError",
                        retcode |-> 0]]
                /\ pc' = pc
           ELSE /\ hook' = [hook EXCEPT ![p] = [h EXCEPT !.env = hook_env(cmd)]]
                /\ trace' = [trace EXCEPT ![p] =
                       <<Event("exec", install_cmd(project, hook_env(cmd)), environ[p])>>]
                /\ result' = [result EXCEPT ![p] = NoResult]
                /\ pc' = [pc EXCEPT ![p] = "pixi_install"]
    /\ scope' = [scope EXCEPT ![p].last = NoLast]
    /\ UNCHANGED <<resolver, pixi_home, sys_platform, live, dirs, manifest, environ,
                   ctx, cwd, inst>>

\* Mutant: `pixi install` run with check=False, its exit status dropped.
PixiInstallExit_unchecked(p, rc) ==
    /\ p \in live
    /\ pc[p] = "pixi_install"
    /\ trace' = [trace EXCEPT ![p][1] = Exited(@, rc)]
    /\ hook' = [hook EXCEPT ![p].chunks = partition(hook[p].file_args)]
    /\ pc' = [pc EXCEPT ![p] = "xargs"]
    /\ UNCHANGED <<resolver, pixi_home, sys_platform, live, dirs, manifest, environ,
                   ctx, cwd, scope, inst, result>>

\* `pixi install` exits: a non-zero status raises CalledProcessError
\* out of run_hook, otherwise the command goes to run_xargs.
PixiInstallExit(p, rc) ==
    /\ p \in live
    /\ pc[p] = "pixi_install"
    /\ trace' = [trace EXCEPT ![p][1] = Exited(@, rc)]
    /\ IF rc # 0
       THEN /\ hook' = [hook EXCEPT ![p].exc = "CalledProcessError"]
            /\ result' = [result EXCEPT ![p] =
                   [of |-> "run_hook", kind |-> "raise", exc |-> "CalledProcessError",
                    retcode |-> 0]]
            /\ pc' = [pc EXCEPT ![p] = "in_env"]
       ELSE /\ hook' = [hook EXCEPT ![p].chunks = partition(hook[p].file_args)]
            /\ pc' = [pc EXCEPT ![p] = "xargs"]
            /\ UNCHANGED result
    /\ UNCHANGED <<resolver, pixi_home, sys_platform, live, dirs, manifest, environ,
                   ctx, cwd, scope, inst>>

\* run_xargs launches the next chunk when a slot is free.
LaunchChunk(p) ==
    /\ p \in live
    /\ pc[p] = "xargs"
    /\ Len(trace[p]) - 1 < Len(hook[p].chunks)
    /\ Cardinality(Running(trace[p])) < target_concurrency(hook[p].require_serial)
    /\ trace' = [trace EXCEPT ![p] =
           Append(@, Event("exec",
                           run_cmd(hook[p].project, hook[p].cmd)
                               \o hook[p].chunks[Len(trace[p])],
                           environ[p]))]
    /\ UNCHANGED <<resolver, pixi_home, sys_platform, live, dirs, manifest, environ,
                   ctx, cwd, pc, scope, inst, hook, result>>

\* A chunk's `pixi run` exits.
ChunkExit(p, i, rc) ==
    /\ p \in live
    /\ pc[p] = "xargs"
    /\ i \in Running(trace[p])
    /\ trace' = [trace EXCEPT ![p][i] = Exited(@, rc)]
    /\ UNCHANGED <<resolver, pixi_home, sys_platform, live, dirs, manifest, environ,
                   ctx, cwd, pc, scope, inst, hook, result>>

\* The greatest exit status of the chunks.
MaxRc(tr) ==
    IF \E i \in 2..Len(tr) : tr[i].rc # 0
    THEN CHOOSE r \in {tr[i].rc : i \in 2..Len(tr)} :
             \A i \in 2..Len(tr) : tr[i].rc <= r
    ELSE 0

\* Every chunk has run: run_xargs, and with it run_hook, returns.
XargsReturn(p) ==
    /\ p \in live
    /\ pc[p] = "xargs"
    /\ Len(trace[p]) - 1 = Len(hook[p].chunks)
    /\ Running(trace[p]) = {}
    /\ result' = [result EXCEPT ![p] =
           [of |-> "run_hook", kind |-> "return", exc |-> "",
            retcode |-> MaxRc(trace[p])]]
    /\ pc' = [pc EXCEPT ![p] = "in_env"]
    /\ UNCHANGED <<resolver, pixi_home, sys_platform, live, dirs, manifest, environ,
                   ctx, cwd, scope, inst, hook, trace>>

Next ==
    \E p \in Procs :
        \/ \E v \in VersionsIn, d \in DepsIn : InstallEnvironmentCall(p, v, d)
        \/ \E ok \in BOOLEAN : UrlopenDone(p, ok)
        \/ \E rc \in {0, 1} : BootstrapExit(p, rc)
        \/ InstallEnvironmentReturn(p)
        \/ \E v \in VersionsIn : InEnvEnter(p, v)
        \/ InEnvExit(p)
        \/ \E d \in Cwds : Chdir(p, d)
        \/ \E c \in CallsIn :
               RunHookCall(p, c.entry, c.args, c.file_args, c.is_local, c.require_serial)
        \/ \E rc \in {0, 1} : PixiInstallExit(p, rc)
        \/ LaunchChunk(p)
        \/ \E i \in 1..(MaxFiles + 1), rc \in {0, 1} : ChunkExit(p, i, rc)
        \/ XargsReturn(p)

Spec == Init /\ [][Next]_vars

SpecConc == InitConc /\ [][Next]_vars

\* ------------------------------------------------- get_default_version
\* The decorated function's body (its __wrapped__).
get_default_version_wrapped(exe_exists) == IF exe_exists THEN S_system ELSE S_DEFAULT

\* Mutant: the function without functools.lru_cache.
GetDefaultVersion_uncached(p) ==
    /\ p \in live
    /\ pc[p] = "idle"
    /\ default_version[p].calls < MaxCalls
    /\ LET dv == default_version[p]
           ret == get_default_version_wrapped(pixi_on_path)
       IN  default_version' = [default_version EXCEPT ![p] =
               [cached |-> FALSE, value |-> S_empty,
                calls |-> dv.calls + 1,
                probes |-> dv.probes + 1,
                probed |-> IF dv.calls = 0 THEN pixi_on_path ELSE dv.probed,
                first |-> IF dv.calls = 0 THEN ret ELSE dv.first,
                last |-> ret]]
    /\ UNCHANGED <<pixi_on_path, pixi_home, sys_platform, live, dirs, manifest, environ,
                   ctx, cwd, pc, scope, inst, hook, trace, result>>

\* A call of get_default_version: lru_cache answers from its one entry
\* when it has one, and otherwise runs the body and keeps its result.
GetDefaultVersion(p) ==
    /\ p \in live
    /\ pc[p] = "idle"
    /\ default_version[p].calls < MaxCalls
    /\ LET dv == default_version[p]
           ret == IF dv.cached THEN dv.value
                  ELSE get_default_version_wrapped(pixi_on_path)
       IN  default_version' = [default_version EXCEPT ![p] =
               [cached |-> TRUE, value |-> ret,
                calls |-> dv.calls + 1,
                probes |-> IF dv.cached THEN dv.probes ELSE dv.probes + 1,
                probed |-> IF dv.calls = 0 THEN pixi_on_path ELSE dv.probed,
                first |-> IF dv.calls = 0 THEN ret ELSE dv.first,
                last |-> ret]]
    /\ UNCHANGED <<pixi_on_path, pixi_home, sys_platform, live, dirs, manifest, environ,
                   ctx, cwd, pc, scope, inst, hook, trace, result>>

\* pixi is installed on, or removed from, the ambient search path.
PathChange ==
    /\ pixi_on_path' = ~pixi_on_path
    /\ UNCHANGED <<default_version, pixi_home, sys_platform, live, dirs, manifest,
                   environ, ctx, cwd, pc, scope, inst, hook, trace, result>>

NextDefault ==
    \/ \E p \in Procs : GetDefaultVersion(p)
    \/ PathChange

SpecDefault == InitDefault /\ [][NextDefault]_vars

\* ================================================= the claims
\* The children of the run_hook call a process is in (or has just
\* returned from, still inside its in_env scope), and the requests and
\* children of its install_environment call.
RunTrace(p) == IF scope[p].state = "in" THEN trace[p] ELSE <<>>
InstTrace(p) == IF inst[p].envdir # S_empty THEN trace[p] ELSE <<>>

IsPixi(argv, sub) == Len(argv) >= 2 /\ argv[1] = S_pixi /\ argv[2] = sub

InstallReturned(p) ==
    result[p].of = "install_environment" /\ result[p].kind = "return"

InstallStepRunning(p) ==
    \E i \in 1..Len(trace[p]) :
        /\ trace[p][i].kind = "exec"
        /\ trace[p][i].status = "running"
        /\ \/ (pc[p] = "bootstrap" /\ i = 2)
           \/ IsPixi(trace[p][i].argv, S_install)

PixiRunRunning(p) ==
    \E i \in 1..Len(trace[p]) :
        /\ trace[p][i].status = "running"
        /\ IsPixi(trace[p][i].argv, S_run)

\* The environment directory and the manifest a process works on.
TargetOf(p) ==
    IF scope[p].state = "in"
    THEN [envdir |-> scope[p].envdir, project |-> hook[p].project]
    ELSE [envdir |-> inst[p].envdir, project |-> prefix_path(S_pixi_toml)]

\* C2: over hook executions in separate processes on the same
\* environment directory and manifest, no installation step (bootstrap
\* script or `pixi install`) is in progress while a `pixi run` chunk is.
C2_NoInstallDuringRun ==
    \A p \in Procs, q \in Procs :
        ~( /\ InstallStepRunning(p)
           /\ PixiRunRunning(q)
           /\ TargetOf(p) = TargetOf(q) )

C4_DependenciesAdded ==
    \A p \in Procs :
        (InstallReturned(p) /\ inst[p].deps # <<>>) =>
            /\ manifest[prefix_path(S_pixi_toml)].exists
            /\ \A k \in 1..Len(inst[p].deps) :
                  inst[p].deps[k] \in manifest[prefix_path(S_pixi_toml)].deps
            /\ \E i \in 1..Len(InstTrace(p)) : IsPixi(InstTrace(p)[i].argv, S_add)

\* ------------------------------------------------------------- C5
\* The i-th child of a run_hook call is the chunk i - 1 of run_xargs.
ChunkArgv(p, i) == RunTrace(p)[i].argv

LocalManifest(p) == cwd[p] \o os_sep \o S_pixi_toml
WorkspaceManifest == PrefixDir \o os_sep \o S_pixi_toml

\* C6: every child of run_hook is given, after --manifest-path,
\* pixi.toml of the current working directory when is_local and
\* pixi.toml of the workspace prefix otherwise; where both hold a
\* manifest and pin differently, the dependencies found through the
\* path are the local manifest's for a local hook and the workspace's
\* for any other.
C6_ManifestByLocality ==
    \A p \in Procs : \A i \in 1..Len(RunTrace(p)) :
        LET argv == RunTrace(p)[i].argv
            chosen == IF hook[p].is_local THEN LocalManifest(p) ELSE WorkspaceManifest
            other == IF hook[p].is_local THEN WorkspaceManifest ELSE LocalManifest(p)
        IN  /\ argv[3] = S_manifest_path
            /\ argv[4] = chosen
            /\ ( /\ manifest[chosen].exists
                 /\ manifest[other].exists
                 /\ manifest[chosen].deps # manifest[other].deps )
               => /\ manifest[argv[4]].deps = manifest[chosen].deps
                  /\ manifest[argv[4]].deps # manifest[other].deps

C6_Witness ==
    \E p \in Procs :
        /\ Len(RunTrace(p)) >= 2
        /\ hook[p].is_local
        /\ manifest[LocalManifest(p)].exists
        /\ manifest[WorkspaceManifest].exists
        /\ manifest[LocalManifest(p)].deps # manifest[WorkspaceManifest].deps

\* ------------------------------------------------------------- C7
\* The environment `before` with the patch of a non-system version
\* applied, written out.
Patched(before, envdir) ==
    [n \in (DOMAIN before) \cup {"PATH", "PIXI_HOME"} |->
        IF n = "PATH"
        THEN envdir \o os_sep \o S_bin \o os_pathsep
                 \o (IF "PATH" \in DOMAIN before THEN before["PATH"] ELSE <<>>)
        ELSE IF n = "PIXI_HOME" THEN envdir
        ELSE before[n]]

PatchAsClaimed(patch, envdir, version) ==
    IF version = S_system THEN patch = <<>>
    ELSE /\ Len(patch) = 2
         /\ patch[1].name = "PATH"
         /\ patch[1].parts =
                <<Lit(envdir \o os_sep \o S_bin), Lit(os_pathsep), Var("PATH")>>
         /\ patch[2].name = "PIXI_HOME"
         /\ patch[2].parts = <<Lit(envdir)>>

\* C7: the patch get_env_patch returns for an activation is empty for
\* 'system' and otherwise exactly PATH = envdir/bin, the path
\* separator, the prior PATH (in that order) and PIXI_HOME = envdir;
\* while only that patch is active the environment is the prior one
\* with exactly these two variables so set.
C7_EnvPatch ==
    \A p \in Procs :
        /\ scope[p].state = "in" =>
              /\ PatchAsClaimed(get_env_patch(scope[p].envdir, scope[p].version),
                                scope[p].envdir, scope[p].version)
              /\ environ[p] =
                     IF scope[p].version = S_system THEN scope[p].entry_env
                     ELSE Patched(scope[p].entry_env, scope[p].envdir)
        /\ pc[p] \in {"urlopen", "ie_unwind"} =>
              /\ PatchAsClaimed(get_env_patch(inst[p].envdir, inst[p].version),
                                inst[p].envdir, inst[p].version)
              /\ environ[p] =
                     IF inst[p].version = S_system THEN inst[p].entry_env
                     ELSE Patched(inst[p].entry_env, inst[p].envdir)

C7_Witness ==
    \E p \in Procs :
        /\ scope[p].state = "in"
        /\ scope[p].version # S_system
        /\ "PATH" \in DOMAIN scope[p].entry_env
        /\ environ[p]["PATH"] # scope[p].entry_env["PATH"]

\* ------------------------------------------------------------- C8
\* C8: once in_env, install_environment or _install_pixi has finished,
\* by returning or by an exception of the wrapped operation, the
\* process environment is what it was when it was entered, unset
\* variables included, and no scope is left open.
C8_ScopedRoundTrip ==
    \A p \in Procs :
        /\ scope[p].state = "left" => environ[p] = scope[p].entry_env
        /\ result[p].of = "install_environment" => environ[p] = inst[p].entry_env
        /\ (pc[p] = "ie_unwind" /\ inst[p].version # S_system) =>
              environ[p] = inst[p].pixi_entry_env
        /\ pc[p] = "idle" => ctx[p] = <<>>

C8_Witness ==
    \E p \in Procs :
        /\ result[p].of = "install_environment"
        /\ result[p].exc = "CalledProcessError"
        /\ inst[p].entry_env = EnvNone
        /\ environ[p] = EnvNone

\* ------------------------------------------------------------- C9
SameSetting(env1, env2, name) ==
    /\ (name \in DOMAIN env1) = (name \in DOMAIN env2)
    /\ name \in DOMAIN env1 => env1[name] = env2[name]

\* C9: the bootstrap script is launched with no arguments, in an
\* environment with PIXI_HOME the environment directory, PIXI_VERSION
\* the release tag ('latest' for the default sentinel, else the pin) and
\* PIXI_NO_PATH_UPDATE '1'; outside that launch PIXI_VERSION and
\* PIXI_NO_PATH_UPDATE are as the caller had them.
C9_BootstrapLaunch ==
    \A p \in Procs :
        /\ pc[p] = "bootstrap" =>
              LET child == trace[p][2]
              IN  /\ Len(child.argv) = 1
                  /\ child.status = "running"
                  /\ child.env = environ[p]
                  /\ {"PIXI_HOME", "PIXI_VERSION", "PIXI_NO_PATH_UPDATE"}
                         \subseteq DOMAIN child.env
                  /\ child.env["PIXI_HOME"] =
                         PrefixDir \o os_sep \o ENVIRONMENT_DIR \o <<"-">> \o inst[p].version
                  /\ child.env["PIXI_VERSION"] =
                         (IF inst[p].version = S_DEFAULT THEN S_latest
                          ELSE inst[p].version)
                  /\ child.env["PIXI_NO_PATH_UPDATE"] = S_one
        /\ (pc[p] # "bootstrap" /\ ctx[p] # <<>>) =>
              /\ SameSetting(environ[p], ctx[p][1], "PIXI_VERSION")
              /\ SameSetting(environ[p], ctx[p][1], "PIXI_NO_PATH_UPDATE")

C9_Witness ==
    \E p \in Procs :
        /\ pc[p] = "bootstrap"
        /\ inst[p].version = S_DEFAULT
        /\ "PIXI_VERSION" \notin DOMAIN inst[p].entry_env

\* ------------------------------------------------------------ C10
ClaimedInstaller == IF sys_platform = S_win32 THEN S_install_ps1 ELSE S_install_sh

\* C10: the bootstrap script is install.ps1 exactly on win32 and
\* install.sh elsewhere; it is fetched from https://pixi.sh/<name> and
\* the base name of the file executed is that name.
C10_InstallerByPlatform ==
    \A p \in Procs :
        /\ (pc[p] \in {"urlopen", "bootstrap"}) =>
              trace[p][1].argv = <<S_url_base \o ClaimedInstaller>>
        /\ pc[p] = "bootstrap" =>
              os_path_basename(trace[p][2].argv[1]) = ClaimedInstaller

\* ------------------------------------------------------------ C11
\* Version strings: the three a hook is configured with, the release
\* tag 'latest', the empty string and the sentinel in another case.
VersionStrings ==
    Versions \cup {S_latest, S_empty, <<"D", "E", "F", "A", "U", "L", "T">>}

ClaimedPixiVersion(v) == IF v = S_DEFAULT THEN <<"l", "a", "t", "e", "s", "t">> ELSE v

\* C11: _pixi_version maps the framework default sentinel to 'latest'
\* and every other string, 'system' and the pins included, to itself;
\* the release tag an installation works with is that value.
C11_PixiVersion ==
    /\ \A v \in VersionStrings : _pixi_version(v) = ClaimedPixiVersion(v)
    /\ \A p \in Procs :
          pc[p] \in {"urlopen", "bootstrap"} =>
              inst[p].pixi_version = ClaimedPixiVersion(inst[p].version)

C11_Witness ==
    \E p \in Procs :
        /\ pc[p] = "bootstrap"
        /\ inst[p].version = S_pin
        /\ trace[p][2].env["PIXI_VERSION"] = S_pin

\* ------------------------------------------------------------ C12
\* C12: get_default_version returns 'system' when a pixi executable is
\* on the search path and the default sentinel otherwise, and caches
\* it: over the calls of a process the path is probed once, at the
\* first call, and every call returns what the first call returned.
C12_DefaultVersionCached ==
    \A p \in Procs :
        default_version[p].calls >= 1 =>
            /\ default_version[p].first =
                   (IF default_version[p].probed THEN <<"s", "y", "s", "t", "e", "m">> ELSE S_DEFAULT)
            /\ default_version[p].probes = 1
            /\ default_version[p].last = default_version[p].first

C12_Witness ==
    \E p \in Procs :
        /\ default_version[p].calls >= 2
        /\ default_version[p].probed
        /\ ~pixi_on_path
        /\ default_version[p].last = <<"s", "y", "s", "t", "e", "m">>

\* ------------------------------------------------------------ C13
\* A process is in, or has last finished, an install_environment call.
InInstallCall(p) == InInstall(p) \/ result[p].of = "install_environment"

\* C13: for the version 'system' install_environment makes no network
\* request and launches no script, its environment patch is empty, so
\* the environment (PATH and PIXI_HOME with it) stays what the caller
\* had throughout the call, and on disk the call only sees to it that
\* the environment directory exists.
C13_SystemNoBootstrap ==
    \A p \in Procs :
        (InInstallCall(p) /\ inst[p].version = <<"s", "y", "s", "t", "e", "m">>) =>
            /\ pc[p] \notin {"urlopen", "bootstrap"}
            /\ InstTrace(p) = <<>>
            /\ get_env_patch(inst[p].envdir, inst[p].version) = <<>>
            /\ environ[p] = inst[p].entry_env
            /\ dirs = inst[p].entry_dirs \cup {inst[p].envdir}
            /\ pixi_home = inst[p].entry_home
            /\ manifest = InitManifest
            /\ result[p].of = "install_environment" => result[p].kind = "return"

C13_Witness ==
    \E p \in Procs :
        /\ InstallReturned(p)
        /\ inst[p].version = <<"s", "y", "s", "t", "e", "m">>
        /\ inst[p].envdir \notin inst[p].entry_dirs
        /\ "PATH" \in DOMAIN inst[p].entry_env

\* ------------------------------------------------------------ C14
FailedSteps(p) == {i \in 1..Len(InstTrace(p)) : InstTrace(p)[i].status = "fail"}

\* C14: when a step of install_environment fails (the download or the
\* bootstrap script; the call has no later step), the call ends by
\* raising to its caller, the failed step is the last one of the call
\* (no later step is run, the step is not tried again), and the
\* environment directory made at the start stays on disk; a call that
\* raises has a failed step.
C14_InstallFailureAborts ==
    \A p \in Procs :
        /\ FailedSteps(p) # {} =>
              /\ FailedSteps(p) = {Len(InstTrace(p))}
              /\ \A i, j \in 1..Len(InstTrace(p)) :
                    InstTrace(p)[i].kind = InstTrace(p)[j].kind => i = j
              /\ \/ pc[p] = "ie_unwind" /\ inst[p].exc # ""
                 \/ /\ pc[p] = "idle"
                    /\ result[p].of = "install_environment"
                    /\ result[p].kind = "raise"
                    /\ result[p].exc \in {"URLError", "CalledProcessError"}
              /\ inst[p].envdir \in dirs
        /\ (result[p].of = "install_environment" /\ result[p].kind = "raise") =>
              FailedSteps(p) # {}

C14_Witness ==
    \E p \in Procs :
        /\ result[p].of = "install_environment"
        /\ result[p].kind = "raise"
        /\ result[p].exc = "URLError"
        /\ inst[p].envdir \notin inst[p].entry_dirs
        /\ inst[p].envdir \in dirs

\* ------------------------------------------------------------ C15
RunFinished(p) == scope[p].state = "in" /\ result[p].of = "run_hook"

\* C15: when a child process launched by run_hook has exited non-zero,
\* the finished call has returned, to its caller, a pair with a non-zero
\* exit code (it has neither raised nor reported 0), and no failed child
\* was launched again.
C15_FailureReturned ==
    \A p \in Procs :
        /\ (RunFinished(p) /\ \E i \in 1..Len(RunTrace(p)) : RunTrace(p)[i].rc # 0) =>
              /\ result[p].kind = "return"
              /\ result[p].retcode # 0
        /\ \A i, j \in 1..Len(RunTrace(p)) :
              (i < j /\ RunTrace(p)[i].status = "fail") =>
                  RunTrace(p)[j].argv # RunTrace(p)[i].argv

\* ------------------------------------------------------------ C16
\* The finished install_environment call directly followed a successful
\* one with the same version and additional_dependencies.
SecondInARow(p) ==
    /\ result[p].of = "install_environment"
    /\ inst[p].prev.kind = "return"
    /\ inst[p].prev.version = inst[p].version
    /\ inst[p].prev.deps = inst[p].deps

\* C16: an install_environment call that directly follows a successful
\* one with the same arguments finds the environment directory there
\* and does not fail for it (it raises only when its own download or
\* script failed); when it succeeds, the directories, the toolchain in
\* them and the dependency set of the manifest are what the first call
\* left.
C16_InstallIdempotent ==
    \A p \in Procs :
        SecondInARow(p) =>
            /\ inst[p].envdir \in inst[p].entry_dirs
            /\ FailedSteps(p) = {} => result[p].kind = "return"
            /\ result[p].kind = "return" =>
                  /\ dirs = inst[p].entry_dirs
                  /\ pixi_home = inst[p].entry_home
                  /\ manifest[WorkspaceManifest].deps = InitManifest[WorkspaceManifest].deps

C16_Witness ==
    \E p \in Procs :
        /\ SecondInARow(p)
        /\ result[p].kind = "return"
        /\ inst[p].version = S_pin
        /\ inst[p].deps # <<>>
        /\ Len(InstTrace(p)) = 2

\* ------------------------------------------------------------ C17
\* What one install_environment call in which no step fails leaves of
\* the environment of a version, starting from nothing.
FullyInstalled(version, envdir) ==
    /\ envdir \in dirs
    /\ pixi_home[envdir] = (IF version = <<"s", "y", "s", "t", "e", "m">> THEN "none" ELSE "complete")
    /\ manifest = InitManifest

\* C17: a successful install_environment call that directly follows an
\* aborted one with the same arguments leaves the environment in the
\* state a single uninterrupted call leaves it in, whatever the aborted
\* call left in the directory.
C17_RetryConverges ==
    \A p \in Procs :
        ( /\ InstallReturned(p)
          /\ \/ inst[p].prev.kind = "none"
             \/ /\ inst[p].prev.kind = "raise"
                /\ inst[p].prev.version = inst[p].version
                /\ inst[p].prev.deps = inst[p].deps )
        => FullyInstalled(inst[p].version, inst[p].envdir)

C17_Witness ==
    \E p \in Procs :
        /\ InstallReturned(p)
        /\ inst[p].prev.kind = "raise"
        /\ inst[p].prev.version = inst[p].version
        /\ inst[p].prev.deps = inst[p].deps
        /\ inst[p].entry_home[inst[p].envdir] = "partial"
        /\ pixi_home[inst[p].envdir] = "complete"

\* ------------------------------------------------------------ C18
\* Every child of the run_hook call is given the call's manifest.
OneManifestPerCall(p) ==
    \A i \in 1..Len(RunTrace(p)) :
        /\ RunTrace(p)[i].argv[3] = S_manifest_path
        /\ RunTrace(p)[i].argv[4] = hook[p].project

\* C18 as stated: every child of a run_hook call receives the same
\* manifest path, and a call uses the manifest path the call before it
\* used for the same (prefix, is_local), also when the working directory
\* changed in between.
C18_ManifestFixedForHook ==
    \A p \in Procs :
        /\ OneManifestPerCall(p)
        /\ hook[p].prev_project # S_empty => hook[p].project = hook[p].prev_project

\* C18 amended: every child of a run_hook call receives the same
\* manifest path; for a hook that is not local it is pixi.toml of the
\* prefix in every call, whatever the working directory; for a local
\* hook it is pixi.toml of the working directory at the time of the
\* call, so two calls use the same manifest only when made from the
\* same directory.
C18_ManifestPerCall ==
    \A p \in Procs :
        /\ OneManifestPerCall(p)
        /\ (hook[p].project # S_empty /\ ~hook[p].is_local) =>
              /\ hook[p].project = WorkspaceManifest
              /\ hook[p].prev_project \in {S_empty, hook[p].project}
        /\ (hook[p].project # S_empty /\ hook[p].is_local) =>
              /\ hook[p].project = LocalManifest(p)
              /\ hook[p].prev_project \in
                     {S_empty} \cup {d \o os_sep \o S_pixi_toml : d \in Cwds}

C18_Witness ==
    \E p \in Procs :
        /\ hook[p].is_local
        /\ Len(RunTrace(p)) >= 2
        /\ hook[p].prev_project # S_empty
        /\ hook[p].prev_project # hook[p].project

\* ------------------------------------------------------------ C19
InstallChildren(p) ==
    {i \in 1..Len(RunTrace(p)) : IsPixi(RunTrace(p)[i].argv, S_install)}

RunChildren(p) ==
    {i \in 1..Len(RunTrace(p)) : IsPixi(RunTrace(p)[i].argv, S_run)}

\* C19: a run_hook call launches `pixi install --manifest-path
\* <manifest> -e <env>` once, as its first child, and launches a
\* `pixi run` chunk only after that child has exited with status 0,
\* however many chunks there are and whatever require_serial is; a call
\* that returns has launched it exactly once and every chunk after it;
\* when it fails no chunk is launched and the call raises.
C19_InstallOnceBeforeRun ==
    \A p \in Procs :
        /\ InstallChildren(p) \subseteq {1}
        /\ Len(RunTrace(p)) >= 1 =>
              /\ InstallChildren(p) = {1}
              /\ RunTrace(p)[1].argv =
                     <<S_pixi, S_install, S_manifest_path, hook[p].project,
                       S_e, hook[p].env>>
        /\ RunChildren(p) # {} => RunTrace(p)[1].status = "ok"
        /\ (pc[p] = "xargs" \/ (RunFinished(p) /\ result[p].kind = "return")) =>
              /\ InstallChildren(p) = {1}
              /\ RunTrace(p)[1].status = "ok"
        /\ (RunFinished(p) /\ result[p].kind = "return") =>
              RunChildren(p) = 2..(Len(hook[p].chunks) + 1)
        /\ (Len(RunTrace(p)) >= 1 /\ RunTrace(p)[1].status = "fail") =>
              /\ RunChildren(p) = {}
              /\ RunFinished(p)
              /\ result[p].kind = "raise"

C19_Witness ==
    \E p \in Procs :
        /\ RunFinished(p)
        /\ result[p].kind = "return"
        /\ hook[p].require_serial
        /\ Cardinality(RunChildren(p)) = MaxFiles

\* ------------------------------------------------------------ C20
\* C20: the environment the pre-run step of run_hook installs is the
\* one `pixi run` selects for the hook command: X for -e X,
\* --environment X, -e=X and --environment=X wherever the option stands
\* among the options before the task, 'default' without the option; and
\* run_hook does not fail on a command that is only -e or --environment.
C20_InstalledEnvIsRunEnv ==
    \A p \in Procs :
        /\ Len(RunTrace(p)) >= 1 =>
              /\ IsPixi(RunTrace(p)[1].argv, S_install)
              /\ RunTrace(p)[1].argv[5] = S_e
              /\ RunTrace(p)[1].argv[6] = pixi_run_selects(hook[p].cmd)
        /\ RunFinished(p) => result[p].exc # "IndexError"

====
